---- MODULE Spec2Model ----
(***************************************************************************)
(* Swap execution engine of astriaorg/swap-example (src/src/SwapExecution.ts *)
(* and its caller src/src/App.tsx).                                         *)
(*                                                                          *)
(* SwapExecution.ts holds two definitions of the engine: the first one      *)
(* (lines 1-409: Trade(route, amount, type), approval step, exactInput      *)
(* with an encoded path) and the second one (lines 433-720:                 *)
(* Trade(route, inputAmount, outputAmount, type), exactInputSingle /        *)
(* exactOutputSingle, no approval step).  The variable "version" says which *)
(* of the two an execution runs; definitions of the second one carry the    *)
(* suffix 2.                                                                *)
(***************************************************************************)
EXTENDS Integers, Sequences, FiniteSets, TLC

VARIABLES
    version,    \* 1 or 2: which definition of SwapExecution.ts runs
    quote,      \* the GetQuoteResult handed to createTradeFromQuote
    tradeType,  \* "exactIn" | "exactOut", the type argument
    options,    \* SwapOptions
    trade,      \* the Trade (NoTrade before creation / when creation threw)
    pc,         \* position of the caller inside createTrade / executeSwap
    allowance,  \* chain state: allowance(signer, router) of the input token
    calls,      \* the network calls of the current executeSwap, in order
    swapCall,   \* the router call built by executeSwap (method, params, value)
    gasLimit,   \* the estimateGas result of the current execution
    result,     \* what the caller of executeSwap / createTradeFromQuote got
    execs,      \* number of executeSwap executions started
    privateKey, \* whether import.meta.env.VITE_PRIV_KEY is set
    submitted,  \* real submissions of the current Trade that returned a tx
    confirmed,  \* an approval sent by this code has been confirmed
    afterConfirm, \* the current execution started after that confirmation
    suspended,  \* a second execution of the same Trade, waiting at an await
    rPools,     \* Route constructor arguments (specification SpecRoute)
    rInput,
    rOutput,
    rResult     \* outcome of new Route(rPools, rInput, rOutput)

vars == <<version, quote, tradeType, options, trade, pc, allowance, calls,
          swapCall, gasLimit, result, execs, privateKey, submitted, confirmed,
          afterConfirm, suspended, rPools, rInput, rOutput, rResult>>

(***************************************************************************)
(* Bounds                                                                   *)
(***************************************************************************)
MaxHops == 2        \* hops per quoted route
MaxPools == 2       \* pools per directly constructed Route
MaxExecutions == 2  \* executeSwap executions per trade

(***************************************************************************)
(* Addresses and tokens.  An address string is "0x" + hex; cased says       *)
(* whether its hex letters are written in upper case somewhere (checksum    *)
(* form), so that === and toLowerCase() differ.                             *)
(***************************************************************************)
Address(hex, cased) == [hex |-> hex, cased |-> cased]

toLowerCase(address) == [address EXCEPT !.cased = FALSE]

\* address.slice(2): the hex body without the "0x" prefix
slice2(address) == <<"hex", address.hex, address.cased>>

ZeroAddress == Address("0000", FALSE)

Token(chainId, address) == [chainId |-> chainId, address |-> address]

equals(this, other) ==
    /\ this.chainId = other.chainId
    /\ toLowerCase(this.address) = toLowerCase(other.address)

Pool(token0, token1, fee) == [token0 |-> token0, token1 |-> token1, fee |-> fee]

(***************************************************************************)
(* JSBI: arbitrary-precision integers, kept as sign and magnitude           *)
(* hi * LimbBase + lo, so that products beyond 32 bits stay exact.          *)
(***************************************************************************)
LimbBase == 10000

Abs(n) == IF n < 0 THEN -n ELSE n

JSBI_BigInt(n) ==
    [neg |-> n < 0, hi |-> Abs(n) \div LimbBase, lo |-> Abs(n) % LimbBase]

\* value.toString(), read back as a number
JSBI_toString(v) ==
    IF v.neg THEN -(v.hi * LimbBase + v.lo) ELSE v.hi * LimbBase + v.lo

JSBI_add(a, b) == JSBI_BigInt(JSBI_toString(a) + JSBI_toString(b))

JSBI_subtract(a, b) == JSBI_BigInt(JSBI_toString(a) - JSBI_toString(b))

JSBI_multiply(a, b) ==
    LET lolo == a.lo * b.lo
        hi   == a.hi * b.hi * LimbBase + a.hi * b.lo + a.lo * b.hi
                    + (lolo \div LimbBase)
        lo   == lolo % LimbBase
    IN  [neg |-> (a.neg # b.neg) /\ (hi # 0 \/ lo # 0), hi |-> hi, lo |-> lo]

\* JSBI.divide truncates toward zero (long division, limb by limb)
JSBI_divide(a, b) ==
    LET d == Abs(JSBI_toString(b))
        q == (a.hi \div d) * LimbBase + (((a.hi % d) * LimbBase + a.lo) \div d)
    IN  [neg |-> (a.neg # b.neg) /\ q # 0,
         hi |-> q \div LimbBase, lo |-> q % LimbBase]

(***************************************************************************)
(* Route constructor (the same text in both definitions)                   *)
(***************************************************************************)
Last(s) == s[Len(s)]

\* one step of pools.reduce: tokens is the accumulator
RouteStep(tokens, pool, input) ==
    LET isInput  == equals(pool.token0, IF Len(tokens) > 0 THEN Last(tokens) ELSE input)
        tokenIn  == IF isInput THEN pool.token0 ELSE pool.token1
        tokenOut == IF isInput THEN pool.token1 ELSE pool.token0
    IN  (IF Len(tokens) = 0 THEN <<tokenIn>> ELSE tokens) \o <<tokenOut>>

RECURSIVE RoutePath(_, _, _)
RoutePath(pools, input, tokens) ==
    IF pools = <<>> THEN tokens
    ELSE RoutePath(Tail(pools), input, RouteStep(tokens, Head(pools), input))

Threw(error) == [ok |-> FALSE, error |-> error]
Returned(value) == [ok |-> TRUE, value |-> value]

Route(pools, input, output) ==
    LET path == RoutePath(pools, input, <<>>)
    IN  IF path = <<>>
        THEN Threw("TypeError")  \* this.path[0] is undefined
        ELSE IF path[1].address # input.address
        THEN Threw("First token in path must match input token")
        ELSE IF Last(path).address # output.address
        THEN Threw("Last token in path must match output token")
        ELSE Returned([pools |-> pools, path |-> path,
                       input |-> input, output |-> output])

(***************************************************************************)
(* TokenAmount and Trade                                                    *)
(***************************************************************************)
\* amount is a JSBI; a decimal string goes through JSBI.BigInt at the call
TokenAmount(token, amount) == [token |-> token, raw |-> amount]

EXACT_INPUT == "EXACT_INPUT"
EXACT_OUTPUT == "EXACT_OUTPUT"

\* first definition: Trade(route, amount, type)
Trade(route, amount, type) ==
    IF type = EXACT_INPUT
    THEN [route |-> route, type |-> type, inputAmount |-> amount,
          outputAmount |-> TokenAmount(route.output, amount.raw)]
    ELSE [route |-> route, type |-> type, outputAmount |-> amount,
          inputAmount |-> TokenAmount(route.input, amount.raw)]

\* second definition: Trade(route, inputAmount, outputAmount, type)
Trade2(route, inputAmount, outputAmount, type) ==
    [route |-> route, type |-> type,
     inputAmount |-> inputAmount, outputAmount |-> outputAmount]

\* quoteResult.route[0].map(...): the per-hop records as Pools
routePoolsOf(quoteResult) ==
    [i \in 1..Len(quoteResult.route) |->
        LET poolRoute == quoteResult.route[i]
        IN  Pool(Token(poolRoute.tokenIn.chainId, poolRoute.tokenIn.address),
                 Token(poolRoute.tokenOut.chainId, poolRoute.tokenOut.address),
                 poolRoute.fee)]

createTradeFromQuote(quoteResult, type) ==
    LET routePools == routePoolsOf(quoteResult)
    IN  IF routePools = <<>>
        THEN Threw("TypeError")  \* routePools[0] is undefined
        ELSE
        LET inputToken  == routePools[1].token0
            outputToken == Last(routePools).token1
            route       == Route(routePools, inputToken, outputToken)
            amount      == TokenAmount(
                             IF type = "exactIn" THEN inputToken ELSE outputToken,
                             JSBI_BigInt(IF type = "exactIn" THEN quoteResult.amount
                                                             ELSE quoteResult.quote))
        IN  IF ~route.ok THEN route
            ELSE Returned(Trade(route.value, amount,
                     IF type = "exactIn" THEN EXACT_INPUT ELSE EXACT_OUTPUT))

createTradeFromQuote2(quoteResult, type) ==
    LET routePools == routePoolsOf(quoteResult)
    IN  IF routePools = <<>>
        THEN Threw("TypeError")
        ELSE
        LET inputToken  == routePools[1].token0
            outputToken == Last(routePools).token1
            route       == Route(routePools, inputToken, outputToken)
        IN  IF ~route.ok THEN route
            ELSE IF type = "exactIn"
            THEN Returned(Trade2(route.value,
                     TokenAmount(inputToken, JSBI_BigInt(quoteResult.amount)),
                     TokenAmount(outputToken, JSBI_BigInt(quoteResult.quote)), EXACT_INPUT))
            ELSE Returned(Trade2(route.value,
                     TokenAmount(inputToken, JSBI_BigInt(quoteResult.quote)),
                     TokenAmount(outputToken, JSBI_BigInt(quoteResult.amount)), EXACT_OUTPUT))

(***************************************************************************)
(* SwapRouter: slippage bounds                                              *)
(***************************************************************************)
\* a slip of the sign: the tolerance added instead of subtracted
calculateMinimumOut_added(amount, slippageTolerance) ==
    LET slippageAdjusted ==
            JSBI_multiply(amount.raw,
                JSBI_add(JSBI_BigInt(10000), JSBI_BigInt(slippageTolerance)))
    IN  JSBI_divide(slippageAdjusted, JSBI_BigInt(10000))

calculateMinimumOut(amount, slippageTolerance) ==
    LET slippageAdjusted ==
            JSBI_multiply(amount.raw,
                JSBI_subtract(JSBI_BigInt(10000), JSBI_BigInt(slippageTolerance)))
    IN  JSBI_divide(slippageAdjusted, JSBI_BigInt(10000))

calculateMaximumIn(amount, slippageTolerance) ==
    LET slippageAdjusted ==
            JSBI_multiply(amount.raw,
                JSBI_add(JSBI_BigInt(10000), JSBI_BigInt(slippageTolerance)))
    IN  JSBI_divide(slippageAdjusted, JSBI_BigInt(10000))

calculateMinimumOut2(amount, slippageTolerance) ==
    LET slippagePercent == JSBI_BigInt(10000 - slippageTolerance)
    IN  JSBI_divide(JSBI_multiply(amount.raw, slippagePercent), JSBI_BigInt(10000))

calculateMaximumIn2(amount, slippageTolerance) ==
    LET slippagePercent == JSBI_BigInt(10000 + slippageTolerance)
    IN  JSBI_divide(JSBI_multiply(amount.raw, slippagePercent), JSBI_BigInt(10000))

(***************************************************************************)
(* SwapRouter: path encoding (first definition only)                        *)
(***************************************************************************)
HexDigits == <<"0", "1", "2", "3", "4", "5", "6", "7",
               "8", "9", "a", "b", "c", "d", "e", "f">>

\* n.toString(16) as a sequence of characters
RECURSIVE toString16(_)
toString16(n) ==
    IF n < 16 THEN <<HexDigits[n + 1]>>
    ELSE toString16(n \div 16) \o <<HexDigits[(n % 16) + 1]>>

RECURSIVE padStart(_, _, _)
padStart(s, targetLength, ch) ==
    IF Len(s) >= targetLength THEN s ELSE padStart(<<ch>> \o s, targetLength, ch)

RECURSIVE join(_)
join(parts) == IF parts = <<>> THEN <<>> ELSE Head(parts) \o join(Tail(parts))

encodePath(route) ==
    LET encoded == [i \in 1..Len(route.pools) |->
            LET tokenIn  == route.path[i]
                tokenOut == route.path[i + 1]
                fee      == padStart(toString16(route.pools[i].fee), 6, "0")
            IN  IF i = Len(route.pools)
                THEN <<slice2(toLowerCase(tokenIn.address))>> \o fee
                        \o <<slice2(toLowerCase(tokenOut.address))>>
                ELSE <<slice2(toLowerCase(tokenIn.address))>> \o fee]
    IN  <<"0x">> \o join(encoded)

encodeSwapData(tr) ==
    [calldata |-> encodePath(tr.route),
     value |-> IF tr.inputAmount.token.address = ZeroAddress
               THEN JSBI_toString(tr.inputAmount.raw) ELSE 0]

(***************************************************************************)
(* SwapRouter.approveTokenIfNeeded and executeSwap: decisions               *)
(***************************************************************************)
\* stands for 2^256 - 1: above every amount and allowance of the model
MaxUint256 == 2147483647

\* if (token.address === ZeroAddress) return;
isNativeToken(token) == token.address = ZeroAddress

\* the amount executeSwap hands to approveTokenIfNeeded
approvalAmount(tr) == JSBI_toString(tr.inputAmount.raw)

\* a slip of the comparison: approve also when the allowance just suffices
allowanceInsufficient_orEqual(currentAllowance, amount) == currentAllowance <= amount

\* if (allowance < amount)
allowanceInsufficient(currentAllowance, amount) == currentAllowance < amount

\* an approval of the amount needed, not of the maximum
grantedAllowance_exact(amount) == amount

\* tokenContract.approve(this.routerAddress, MaxUint256): the amount granted
grantedAllowance(amount) == MaxUint256

\* first definition: the router method each step calls
swapMethod(tr, step) == "exactInput"

\* second definition: the router method each step calls
swapMethod2(tr, step) ==
    IF tr.type = EXACT_INPUT THEN "exactInputSingle" ELSE "exactOutputSingle"

\* first definition: params and value of the router call
swapParams(tr, opts) ==
    [path |-> encodeSwapData(tr).calldata,
     recipient |-> opts.recipient,
     deadline |-> opts.deadline,
     amountIn |-> JSBI_toString(tr.inputAmount.raw),
     amountOutMinimum |->
        JSBI_toString(calculateMinimumOut(tr.outputAmount, opts.slippageTolerance))]

\* second definition: params of the router call
swapParams2(tr, opts) ==
    IF tr.type = EXACT_INPUT
    THEN [tokenIn |-> tr.route.path[1].address,
          tokenOut |-> tr.route.path[2].address,
          fee |-> tr.route.pools[1].fee,
          recipient |-> opts.recipient,
          amountIn |-> JSBI_toString(tr.inputAmount.raw),
          amountOutMinimum |->
            JSBI_toString(calculateMinimumOut2(tr.outputAmount, opts.slippageTolerance)),
          sqrtPriceLimitX96 |-> 0]
    ELSE [tokenIn |-> tr.route.path[1].address,
          tokenOut |-> tr.route.path[2].address,
          fee |-> tr.route.pools[1].fee,
          recipient |-> opts.recipient,
          amountOut |-> JSBI_toString(tr.outputAmount.raw),
          amountInMaximum |->
            JSBI_toString(calculateMaximumIn2(tr.inputAmount, opts.slippageTolerance)),
          sqrtPriceLimitX96 |-> 0]

swapValue2(tr) ==
    IF tr.inputAmount.token.address = ZeroAddress
    THEN JSBI_toString(tr.inputAmount.raw) ELSE 0

NoCall == [params |-> "none", value |-> 0]

buildSwapCall(v, tr, opts) ==
    IF v = 1
    THEN [params |-> swapParams(tr, opts), value |-> encodeSwapData(tr).value]
    ELSE [params |-> swapParams2(tr, opts), value |-> swapValue2(tr)]

methodOf(v, tr, step) ==
    IF v = 1 THEN swapMethod(tr, step) ELSE swapMethod2(tr, step)

\* a catch block that logs the revert and does not rethrow it
afterStaticCall_swallow(ok) == "estimateGas"

\* where executeSwap goes once the dry call settled (try/catch around it)
afterStaticCall(ok) == IF ok THEN "estimateGas" ELSE "throw"

\* a failed estimate that is ignored: the submission goes ahead
afterEstimateGas_ignored(ok) == "send"

\* where executeSwap goes once estimateGas settled
afterEstimateGas(ok) == IF ok THEN "send" ELSE "throw"

\* gasLimit * 120n / 100n
gasWithBuffer(estimate) == (estimate * 120) \div 100

(***************************************************************************)
(* The caller: createTradeFromQuote, then executeSwap on each click         *)
(***************************************************************************)
NoTrade == [type |-> "none"]
NoResult == [kind |-> "none"]
NoExecution == [pc |-> "none"]

USDC == Token(1, Address("3f65", TRUE))
WETH == Token(1, Address("c02a", FALSE))
TOKEN == Token(1, Address("cbb9", TRUE))
NATIVE == Token(1, ZeroAddress)

Hop(tokenIn, tokenOut, fee) == [tokenIn |-> tokenIn, tokenOut |-> tokenOut, fee |-> fee]

Hops == {Hop(USDC, WETH, 500), Hop(WETH, TOKEN, 3000),
         Hop(NATIVE, USDC, 500), Hop(TOKEN, WETH, 10000)}

QuotedRoutes == UNION {[1..n -> Hops] : n \in 0..MaxHops}
Amounts == {0, 999, 1000000}
QuoteAmounts == {1, 1000000}
Tolerances == {-1, 0, 50, 10000, 20000}
Allowances == {0, 1000000, MaxUint256}
GasEstimates == {100000, 100001}

RouteIdle ==
    /\ rPools = <<>>
    /\ rInput = NATIVE
    /\ rOutput = NATIVE
    /\ rResult = NoResult

Init ==
    /\ version \in {1, 2}
    /\ quote \in [amount : Amounts, quote : QuoteAmounts, route : QuotedRoutes]
    /\ tradeType \in {"exactIn", "exactOut"}
    /\ options \in [recipient : {"recipient"}, slippageTolerance : Tolerances,
                     deadline : {"deadline"}]
    /\ allowance \in Allowances
    /\ trade = NoTrade
    /\ pc = "create"
    /\ calls = <<>>
    /\ swapCall = NoCall
    /\ gasLimit = 0
    /\ result = NoResult
    /\ execs = 0
    /\ privateKey \in BOOLEAN
    /\ submitted = 0
    /\ confirmed = FALSE
    /\ afterConfirm = FALSE
    /\ suspended = NoExecution
    /\ RouteIdle

inputs == <<version, quote, tradeType, options, privateKey>>
routeVars == <<rPools, rInput, rOutput, rResult>>
history == <<submitted, confirmed, afterConfirm, suspended>>

Entry(op, ok, method, arg) == [op |-> op, ok |-> ok, method |-> method, arg |-> arg]

\* a rejected await: the error reaches the caller of executeSwap
Throw(op) ==
    /\ pc' = "done"
    /\ result' = [kind |-> "error", error |-> op]

\* useMemo(() => createTradeFromQuote(quote, TRADE_TYPE))
CreateTrade ==
    /\ pc = "create"
    /\ LET r == IF version = 1 THEN createTradeFromQuote(quote, tradeType)
                              ELSE createTradeFromQuote2(quote, tradeType)
       IN  IF r.ok
           THEN /\ trade' = r.value
                /\ pc' = "ready"
                /\ result' = result
           ELSE /\ trade' = NoTrade
                /\ pc' = "failed"
                /\ result' = [kind |-> "error", error |-> r.error]
    /\ UNCHANGED <<inputs, allowance, calls, swapCall, gasLimit, execs, routeVars,
                   history>>

\* App.executeSwap calls router.executeSwap, which runs up to its first await
StartExecution ==
    /\ execs' = execs + 1
    /\ afterConfirm' = confirmed
    /\ calls' = <<>>
    /\ gasLimit' = 0
    /\ IF ~privateKey
       THEN /\ pc' = "done"
            /\ result' = [kind |-> "error", error |-> "No private key found"]
            /\ swapCall' = NoCall
       ELSE /\ result' = NoResult
            /\ IF version = 1 /\ ~isNativeToken(trade.inputAmount.token)
               THEN pc' = "getAddress" /\ swapCall' = NoCall
               ELSE /\ pc' = "staticCall"
                    /\ swapCall' = buildSwapCall(version, trade, options)
    /\ UNCHANGED <<inputs, trade, allowance, routeVars, submitted, confirmed>>

\* the swap button, pressed while no execution is waiting
Click ==
    /\ pc \in {"ready", "done"}
    /\ execs < MaxExecutions
    /\ StartExecution
    /\ UNCHANGED suspended

\* await signer.getAddress()
GetAddress ==
    /\ pc = "getAddress"
    /\ \E ok \in BOOLEAN :
        /\ calls' = Append(calls, Entry("getAddress", ok, "", 0))
        /\ IF ok THEN pc' = "allowance" /\ result' = result
                 ELSE Throw("getAddress")
    /\ UNCHANGED <<inputs, trade, allowance, swapCall, gasLimit, execs, routeVars,
                   history>>

\* await tokenContract.allowance(signerAddress, routerAddress)
ReadAllowance ==
    /\ pc = "allowance"
    /\ \E ok \in BOOLEAN :
        /\ calls' = Append(calls, Entry("allowance", ok, "", allowance))
        /\ IF ~ok
           THEN Throw("allowance") /\ swapCall' = swapCall
           ELSE /\ result' = result
                /\ IF allowanceInsufficient(allowance, approvalAmount(trade))
                   THEN pc' = "approve" /\ swapCall' = swapCall
                   ELSE /\ pc' = "staticCall"
                        /\ swapCall' = buildSwapCall(version, trade, options)
    /\ UNCHANGED <<inputs, trade, allowance, gasLimit, execs, routeVars, history>>

\* await tokenContract.approve(routerAddress, MaxUint256)
Approve ==
    /\ pc = "approve"
    /\ \E ok \in BOOLEAN :
        /\ calls' = Append(calls, Entry("approve", ok, "", grantedAllowance(approvalAmount(trade))))
        /\ IF ok THEN pc' = "wait" /\ result' = result
                 ELSE Throw("approve")
    /\ UNCHANGED <<inputs, trade, allowance, swapCall, gasLimit, execs, routeVars,
                   history>>

\* await tx.wait(): the approval is mined, or the wait rejects (the
\* transaction reverted, or it was broadcast and is mined all the same)
WaitApproval ==
    /\ pc = "wait"
    /\ \E ok \in BOOLEAN :
        /\ calls' = Append(calls, Entry("wait", ok, "", 0))
        /\ IF ok
           THEN /\ allowance' = grantedAllowance(approvalAmount(trade))
                /\ confirmed' = TRUE
                /\ pc' = "staticCall"
                /\ swapCall' = buildSwapCall(version, trade, options)
                /\ result' = result
           ELSE /\ Throw("wait")
                /\ allowance' \in {allowance, grantedAllowance(approvalAmount(trade))}
                /\ UNCHANGED <<swapCall, confirmed>>
    /\ UNCHANGED <<inputs, trade, gasLimit, execs, routeVars, submitted, afterConfirm,
                   suspended>>

\* await contract.<method>.staticCall(params, { value })
StaticCall ==
    /\ pc = "staticCall"
    /\ \E ok \in BOOLEAN :
        /\ calls' = Append(calls,
               Entry("staticCall", ok, methodOf(version, trade, "staticCall"), swapCall))
        /\ IF afterStaticCall(ok) = "throw"
           THEN Throw("staticCall")
           ELSE pc' = afterStaticCall(ok) /\ result' = result
    /\ UNCHANGED <<inputs, trade, allowance, swapCall, gasLimit, execs, routeVars,
                   history>>

\* await contract.<method>.estimateGas(params, { value })
EstimateGas ==
    /\ pc = "estimateGas"
    /\ \E ok \in BOOLEAN, estimate \in GasEstimates :
        /\ calls' = Append(calls,
               Entry("estimateGas", ok, methodOf(version, trade, "estimateGas"), swapCall))
        /\ IF afterEstimateGas(ok) = "throw"
           THEN Throw("estimateGas") /\ gasLimit' = gasLimit
           ELSE /\ pc' = afterEstimateGas(ok)
                /\ result' = result
                /\ gasLimit' = estimate
    /\ UNCHANGED <<inputs, trade, allowance, swapCall, execs, routeVars, history>>

\* contract.<method>(params, { gasLimit, value }): the real submission
Send ==
    /\ pc = "send"
    /\ \E ok \in BOOLEAN :
        /\ calls' = Append(calls,
               Entry("send", ok, methodOf(version, trade, "send"), swapCall))
        /\ IF ok
           THEN /\ pc' = "done"
                /\ result' = [kind |-> "tx",
                               method |-> methodOf(version, trade, "send"),
                               call |-> swapCall,
                               gasLimit |-> gasWithBuffer(gasLimit)]
                /\ submitted' = submitted + 1
           ELSE Throw("send") /\ submitted' = submitted
    /\ UNCHANGED <<inputs, trade, allowance, swapCall, gasLimit, execs, routeVars,
                   confirmed, afterConfirm, suspended>>

Next ==
    \/ CreateTrade
    \/ Click
    \/ GetAddress
    \/ ReadAllowance
    \/ Approve
    \/ WaitApproval
    \/ StaticCall
    \/ EstimateGas
    \/ Send

Spec == Init /\ [][Next]_vars

(***************************************************************************)
(* The page over time: the button stays enabled while an execution waits at *)
(* an await, so a second click starts a second executeSwap on the same      *)
(* Trade; the two interleave at their awaits.  A new quote from useGetQuote *)
(* replaces the Trade.                                                      *)
(***************************************************************************)
\* the positions at which an execution waits for the network
InFlight == {"getAddress", "allowance", "approve", "wait", "staticCall",
             "estimateGas", "send"}

\* the execution whose step is taken next, as a value
Current == [pc |-> pc, calls |-> calls, swapCall |-> swapCall,
            gasLimit |-> gasLimit, result |-> result,
            afterConfirm |-> afterConfirm]

\* the swap button, pressed while an execution waits at an await
ClickWhileBusy ==
    /\ pc \in InFlight
    /\ suspended = NoExecution
    /\ execs < MaxExecutions
    /\ suspended' = Current
    /\ StartExecution

\* the event loop resumes the other execution; one that has settled is
\* not kept
Resume ==
    /\ suspended # NoExecution
    /\ pc' = suspended.pc
    /\ calls' = suspended.calls
    /\ swapCall' = suspended.swapCall
    /\ gasLimit' = suspended.gasLimit
    /\ result' = suspended.result
    /\ afterConfirm' = suspended.afterConfirm
    /\ suspended' = IF pc \in InFlight THEN Current ELSE NoExecution
    /\ UNCHANGED <<inputs, trade, allowance, execs, routeVars, submitted, confirmed>>

OverlapRoutes == {<<Hop(USDC, WETH, 500)>>,
                  <<Hop(USDC, WETH, 500), Hop(WETH, TOKEN, 3000)>>}
OverlapQuotes == [amount : {999, 1000000}, quote : {1000000}, route : OverlapRoutes]

\* useGetQuote returns another quote: useMemo builds another Trade
Requote ==
    /\ pc \in {"ready", "done"}
    /\ suspended = NoExecution
    /\ quote' \in OverlapQuotes \ {quote}
    /\ trade' = NoTrade
    /\ pc' = "create"
    /\ calls' = <<>>
    /\ swapCall' = NoCall
    /\ gasLimit' = 0
    /\ result' = NoResult
    /\ submitted' = 0
    /\ afterConfirm' = FALSE
    /\ UNCHANGED <<version, tradeType, options, privateKey, allowance, execs,
                   routeVars, confirmed, suspended>>

InitOverlap ==
    /\ version \in {1, 2}
    /\ quote \in OverlapQuotes
    /\ tradeType \in {"exactIn", "exactOut"}
    /\ options = [recipient |-> "recipient", slippageTolerance |-> 50,
                  deadline |-> "deadline"]
    /\ allowance \in Allowances
    /\ trade = NoTrade
    /\ pc = "create"
    /\ calls = <<>>
    /\ swapCall = NoCall
    /\ gasLimit = 0
    /\ result = NoResult
    /\ execs = 0
    /\ privateKey = TRUE
    /\ submitted = 0
    /\ confirmed = FALSE
    /\ afterConfirm = FALSE
    /\ suspended = NoExecution
    /\ RouteIdle

NextOverlap ==
    \/ Next
    \/ ClickWhileBusy
    \/ Resume
    \/ Requote

SpecOverlap == InitOverlap /\ [][NextOverlap]_vars

(***************************************************************************)
(* The Route constructor on its own: new Route(pools, input, output) for    *)
(* any pools and any declared input / output                                *)
(***************************************************************************)
TokA == Token(1, Address("aaaa", FALSE))
TokAChecksum == Token(1, Address("aaaa", TRUE))
TokAOtherChain == Token(2, Address("aaaa", FALSE))
TokB == Token(1, Address("bbbb", FALSE))
TokC == Token(1, Address("cccc", FALSE))

RouteTokens == {TokA, TokAChecksum, TokAOtherChain, TokB, TokC}
\* a pool pairs two different tokens
RoutePools == {p \in {Pool(t0, t1, 500) : t0 \in RouteTokens, t1 \in RouteTokens} :
                  ~equals(p.token0, p.token1)}

InitRoute ==
    /\ rPools \in UNION {[1..n -> RoutePools] : n \in 0..MaxPools}
    /\ rInput \in RouteTokens
    /\ rOutput \in RouteTokens
    /\ rResult = NoResult
    /\ pc = "route"
    /\ version = 1
    /\ quote = [amount |-> 0, quote |-> 0, route |-> <<>>]
    /\ tradeType = "exactIn"
    /\ options = [recipient |-> "recipient", slippageTolerance |-> 0,
                  deadline |-> "deadline"]
    /\ allowance = 0
    /\ trade = NoTrade
    /\ calls = <<>>
    /\ swapCall = NoCall
    /\ gasLimit = 0
    /\ result = NoResult
    /\ execs = 0
    /\ privateKey = TRUE
    /\ submitted = 0
    /\ confirmed = FALSE
    /\ afterConfirm = FALSE
    /\ suspended = NoExecution

\* new Route(rPools, rInput, rOutput)
NewRoute ==
    /\ pc = "route"
    /\ pc' = "routeDone"
    /\ rResult' = Route(rPools, rInput, rOutput)
    /\ UNCHANGED <<inputs, trade, allowance, calls, swapCall, gasLimit, result,
                   execs, rPools, rInput, rOutput, history>>

NextRoute == NewRoute

SpecRoute == InitRoute /\ [][NextRoute]_vars

(***************************************************************************)
(* What the log of an execution says                                        *)
(***************************************************************************)
Ops(op) == {i \in 1..Len(calls) : calls[i].op = op}
Called(op) == Ops(op) # {}
SwapSteps == {"staticCall", "estimateGas", "send"}
SwapCalls == {i \in 1..Len(calls) : calls[i].op \in SwapSteps}
Succeeded(op) == \E i \in Ops(op) : calls[i].ok
Failed(op) == \E i \in Ops(op) : ~calls[i].ok
HasTrade == trade # NoTrade

InputToken == trade.inputAmount.token
PoolCount == Len(trade.route.pools)
ToleranceInRange == options.slippageTolerance \in 0..10000

\* the allowance values the execution read
AllowancesRead == {calls[i].arg : i \in {j \in Ops("allowance") : calls[j].ok}}

\* floor(raw * factor / 10000) for raw >= 0, by splitting raw at 10000
FloorScaled(raw, factor) ==
    (raw \div 10000) * factor + (((raw % 10000) * factor) \div 10000)

SpecMinimumOut(raw, t) == FloorScaled(raw, 10000 - t)
SpecMaximumIn(raw, t) == FloorScaled(raw, 10000 + t)

(***************************************************************************)
(* C1.  No swap-call step (staticCall, estimateGas, send) is started before *)
(* the approval phase has finished: the allowance was read and, when the    *)
(* allowance read was below the amount, the approve transaction was sent    *)
(* and its wait() completed (a native input token needs no approval).       *)
(* The second definition of executeSwap has no approval phase, so there     *)
(* the statement fails for every ERC-20 input token.                        *)
(***************************************************************************)
ApprovalPhaseFinished ==
    \/ isNativeToken(InputToken)
    \/ /\ Succeeded("allowance")
       /\ \A a \in AllowancesRead :
            allowanceInsufficient(a, approvalAmount(trade))
                => Succeeded("approve") /\ Succeeded("wait")
       /\ \A i \in SwapCalls :
            \A j \in Ops("allowance") \cup Ops("approve") \cup Ops("wait") : j < i

C1_SwapOnlyAfterApproval ==
    (HasTrade /\ ToleranceInRange /\ SwapCalls # {}) => ApprovalPhaseFinished

\* the same statement for the first definition alone
C1_FirstDefinitionOnly ==
    (HasTrade /\ version = 1 /\ (SwapCalls # {} \/ pc \in SwapSteps))
        => ApprovalPhaseFinished

(***************************************************************************)
(* C2.  If the dry call (staticCall) of an execution reverts, that          *)
(* execution makes no estimateGas call and no real submission, it is over,  *)
(* and the caller receives the revert error of the dry call.                *)
(***************************************************************************)
C2_SimulationRevertStops ==
    Failed("staticCall") =>
        /\ ~Called("estimateGas")
        /\ ~Called("send")
        /\ pc = "done"
        /\ result = [kind |-> "error", error |-> "staticCall"]

C2_Witness ==
    /\ Failed("staticCall")
    /\ pc = "done"
    /\ result.kind = "error"
    /\ execs = 2

(***************************************************************************)
(* C3.  The approve calls of one execution of the first definition are      *)
(* decided by the input token and the allowance read: never more than one;  *)
(* none, and no allowance read, for the native token; none when the         *)
(* allowance read is at least the amount handed to approveTokenIfNeeded;    *)
(* and exactly one, made right after the read, when the token is not native *)
(* and the allowance read is below that amount -- it is sent and confirmed  *)
(* before any swap call.                                                    *)
(***************************************************************************)
C3_ApprovalCount ==
    (HasTrade /\ version = 1 /\ execs > 0) =>
        /\ Cardinality(Ops("approve")) <= 1
        /\ Cardinality(Ops("allowance")) <= 1
        /\ isNativeToken(InputToken) => ~Called("approve") /\ ~Called("allowance")
        /\ \A a \in AllowancesRead :
            /\ a >= approvalAmount(trade) => ~Called("approve") /\ pc # "approve"
            /\ (a < approvalAmount(trade) /\ ~isNativeToken(InputToken)) =>
                 \/ pc = "approve" /\ ~Called("approve")
                 \/ Cardinality(Ops("approve")) = 1
            /\ (a < approvalAmount(trade) /\ SwapCalls # {}) =>
                 Succeeded("approve") /\ Succeeded("wait")
        /\ (~isNativeToken(InputToken) /\ (SwapCalls # {} \/ pc \in SwapSteps))
                => AllowancesRead # {}

C3_Witness ==
    /\ HasTrade /\ version = 1
    /\ ~isNativeToken(InputToken)
    /\ AllowancesRead = {0}
    /\ Cardinality(Ops("approve")) = 1
    /\ Succeeded("wait")
    /\ Succeeded("send")

(***************************************************************************)
(* C4.  The amount compared against the allowance is the committed input    *)
(* amount for EXACT_INPUT and maximumIn(inputAmount, slippageTolerance) for *)
(* EXACT_OUTPUT: once the approval phase of the first definition has        *)
(* returned, an approval was emitted exactly when the allowance read was    *)
(* below that required amount.  The code always compares against            *)
(* inputAmount.raw.                                                         *)
(***************************************************************************)
RequiredAmount ==
    IF trade.type = EXACT_INPUT
    THEN JSBI_toString(trade.inputAmount.raw)
    ELSE SpecMaximumIn(JSBI_toString(trade.inputAmount.raw), options.slippageTolerance)

C4_RequiredAmount ==
    (HasTrade /\ version = 1 /\ ToleranceInRange /\ SwapCalls # {}) =>
        \A a \in AllowancesRead : (a < RequiredAmount) <=> Succeeded("approve")

(***************************************************************************)
(* C5.  Every swap call (simulate, estimate, submit) uses the single-hop    *)
(* method (exactInputSingle / exactOutputSingle by trade type) if and only  *)
(* if the route has exactly one pool, the multi-hop method (exactInput /    *)
(* exactOutput) otherwise, and all three steps use the same method.         *)
(***************************************************************************)
ExpectedMethod ==
    IF PoolCount = 1
    THEN IF trade.type = EXACT_INPUT THEN "exactInputSingle" ELSE "exactOutputSingle"
    ELSE IF trade.type = EXACT_INPUT THEN "exactInput" ELSE "exactOutput"

C5_DispatchShape ==
    (HasTrade /\ ToleranceInRange) => \A i \in SwapCalls : calls[i].method = ExpectedMethod

\* the part of C5 the code does satisfy: one method for all three steps
C5_SameMethodForAllSteps ==
    \A i \in SwapCalls : \A j \in SwapCalls : calls[i].method = calls[j].method

(***************************************************************************)
(* C6.  For every pool sequence that connects the declared input to the     *)
(* declared output (each pool holds the token reached so far, in either     *)
(* position, tokens compared by Token.equals), new Route succeeds and its   *)
(* path has pools.length + 1 tokens, starts at input and ends at output.    *)
(* The constructor compares addresses with !==, so an address that differs  *)
(* from the declared one only in letter case makes it throw.                *)
(***************************************************************************)
RECURSIVE Connects(_, _, _)
Connects(pools, current, output) ==
    IF pools = <<>> THEN equals(current, output)
    ELSE LET p == Head(pools)
         IN  \/ equals(p.token0, current) /\ Connects(Tail(pools), p.token1, output)
             \/ equals(p.token1, current) /\ Connects(Tail(pools), p.token0, output)

ValidPoolSequence(pools, input, output) ==
    pools # <<>> /\ Connects(pools, input, output)

\* path is a hop-to-hop chain through pools
IsChain(path, pools) ==
    /\ Len(path) = Len(pools) + 1
    /\ \A i \in 1..Len(pools) :
        \/ equals(pools[i].token0, path[i]) /\ equals(pools[i].token1, path[i + 1])
        \/ equals(pools[i].token1, path[i]) /\ equals(pools[i].token0, path[i + 1])

C6_ValidSequenceConstructs ==
    (pc = "routeDone" /\ ValidPoolSequence(rPools, rInput, rOutput)) =>
        /\ rResult.ok
        /\ Len(rResult.value.path) = Len(rPools) + 1
        /\ equals(rResult.value.path[1], rInput)
        /\ equals(Last(rResult.value.path), rOutput)

\* what does hold: a Route that is returned has pools.length + 1 path tokens
C6_ReturnedPathLength ==
    (pc = "routeDone" /\ rResult.ok) =>
        Len(rResult.value.path) = Len(rPools) + 1

(***************************************************************************)
(* C7.  new Route throws for every malformed pool sequence (one that is not *)
(* a hop-to-hop chain from the declared input to the declared output, the   *)
(* empty list included); a Route that is returned always has such a chain   *)
(* as its path.  The constructor checks only the two ends of the path, and  *)
(* those by address alone.                                                  *)
(***************************************************************************)
C7_MalformedSequenceThrows ==
    pc = "routeDone" =>
        /\ ~ValidPoolSequence(rPools, rInput, rOutput) => ~rResult.ok
        /\ rResult.ok =>
            /\ IsChain(rResult.value.path, rPools)
            /\ equals(rResult.value.path[1], rInput)
            /\ equals(Last(rResult.value.path), rOutput)

(***************************************************************************)
(* C8.  For a tolerance t in [0, 10000] and a non-negative amount,          *)
(* calculateMinimumOut is floor(raw * (10000 - t) / 10000) and              *)
(* calculateMaximumIn is floor(raw * (10000 + t) / 10000), exactly, in both *)
(* definitions; minimumOut(1000000, 50) = 995000 and                        *)
(* maximumIn(1000000, 50) = 1005000; and the amountOutMinimum /             *)
(* amountInMaximum of every router call is that value.                      *)
(***************************************************************************)
OneMillion == TokenAmount(USDC, JSBI_BigInt(1000000))

SlippageAgrees(amount, t) ==
    LET raw == JSBI_toString(amount.raw)
    IN  /\ JSBI_toString(calculateMinimumOut(amount, t)) = SpecMinimumOut(raw, t)
        /\ JSBI_toString(calculateMinimumOut2(amount, t)) = SpecMinimumOut(raw, t)
        /\ JSBI_toString(calculateMaximumIn(amount, t)) = SpecMaximumIn(raw, t)
        /\ JSBI_toString(calculateMaximumIn2(amount, t)) = SpecMaximumIn(raw, t)

BoundsAsSpecified(call) ==
    LET t == options.slippageTolerance
    IN  /\ "amountOutMinimum" \in DOMAIN call.params =>
                call.params.amountOutMinimum =
                    SpecMinimumOut(JSBI_toString(trade.outputAmount.raw), t)
        /\ "amountInMaximum" \in DOMAIN call.params =>
                call.params.amountInMaximum =
                    SpecMaximumIn(JSBI_toString(trade.inputAmount.raw), t)

\* a grid of amounts and in-range tolerances, floors and limb carries included
GridAmounts == (0..12) \cup {999, 9999, 10000, 10001, 123456, 999999, 1000000}
GridTolerances == {0, 1, 49, 50, 3333, 9999, 10000}

SlippageGridAgrees ==
    \A raw \in GridAmounts : \A t \in GridTolerances :
        SlippageAgrees(TokenAmount(USDC, JSBI_BigInt(raw)), t)

C8_SlippageBounds ==
    (HasTrade /\ ToleranceInRange) =>
        /\ SlippageGridAgrees
        /\ SlippageAgrees(trade.inputAmount, options.slippageTolerance)
        /\ SlippageAgrees(trade.outputAmount, options.slippageTolerance)
        /\ JSBI_toString(calculateMinimumOut(OneMillion, 50)) = 995000
        /\ JSBI_toString(calculateMinimumOut2(OneMillion, 50)) = 995000
        /\ JSBI_toString(calculateMaximumIn(OneMillion, 50)) = 1005000
        /\ JSBI_toString(calculateMaximumIn2(OneMillion, 50)) = 1005000
        /\ \A i \in SwapCalls : BoundsAsSpecified(calls[i].arg)
        /\ result.kind = "tx" => BoundsAsSpecified(result.call)

C8_Witness ==
    /\ HasTrade
    /\ options.slippageTolerance = 50
    /\ JSBI_toString(trade.outputAmount.raw) = 1000000
    /\ result.kind = "tx"
    /\ "amountOutMinimum" \in DOMAIN result.call.params
    /\ result.call.params.amountOutMinimum = 995000

(***************************************************************************)
(* C9.  A slippageTolerance outside [0, 10000] makes the slippage           *)
(* calculation fail before a bound is produced: no execution builds,        *)
(* simulates or submits a router call with such a tolerance, and no         *)
(* amountOutMinimum is negative.  The code has no such check.               *)
(***************************************************************************)
BoundProduced == pc \in SwapSteps \/ SwapCalls # {}

C9_ToleranceRejected ==
    (HasTrade /\ BoundProduced) =>
        /\ ToleranceInRange
        /\ \A i \in SwapCalls :
            "amountOutMinimum" \in DOMAIN calls[i].arg.params =>
                calls[i].arg.params.amountOutMinimum >= 0

(***************************************************************************)
(* C10.  The path of a multi-hop call is token_0, fee_0, token_1, ...,      *)
(* token_n with 3-byte fees, from the input token forward for EXACT_INPUT   *)
(* and from the output token backward (fees in reverse hop order) for       *)
(* EXACT_OUTPUT.  encodePath takes the route alone and always encodes       *)
(* forward.                                                                 *)
(***************************************************************************)
\* a fee as 3 big-endian bytes: six hex digits
ThreeBytes(fee) ==
    [k \in 1..6 |->
        HexDigits[((fee \div (CASE k = 1 -> 1048576 [] k = 2 -> 65536 [] k = 3 -> 4096
                                 [] k = 4 -> 256 [] k = 5 -> 16 [] k = 6 -> 1)) % 16) + 1]]

TokenBytes(token) == <<"hex", token.address.hex, FALSE>>

RECURSIVE PathBytes(_, _)
PathBytes(tokens, fees) ==
    IF fees = <<>> THEN <<TokenBytes(tokens[1])>>
    ELSE <<TokenBytes(tokens[1])>> \o ThreeBytes(fees[1])
            \o PathBytes(Tail(tokens), Tail(fees))

Reverse(seq) == [i \in 1..Len(seq) |-> seq[Len(seq) + 1 - i]]

ExpectedPath ==
    LET tokens == trade.route.path
        fees   == [i \in 1..PoolCount |-> trade.route.pools[i].fee]
    IN  IF trade.type = EXACT_INPUT
        THEN <<"0x">> \o PathBytes(tokens, fees)
        ELSE <<"0x">> \o PathBytes(Reverse(tokens), Reverse(fees))

C10_EncodedPath ==
    (HasTrade /\ ToleranceInRange /\ PoolCount > 1) =>
        \A i \in SwapCalls :
            "path" \in DOMAIN calls[i].arg.params =>
                calls[i].arg.params.path = ExpectedPath

\* the half the code does satisfy: the forward path of EXACT_INPUT trades
C10_ForwardPathOnly ==
    (HasTrade /\ trade.type = EXACT_INPUT) =>
        \A i \in SwapCalls :
            "path" \in DOMAIN calls[i].arg.params =>
                calls[i].arg.params.path = ExpectedPath

(***************************************************************************)
(* C11.  createTradeFromQuote takes the Trade's amounts from the quote:     *)
(* for exactIn inputAmount.raw is the quote's "amount" and outputAmount.raw *)
(* its "quote"; for exactOut outputAmount.raw is "amount" and               *)
(* inputAmount.raw is "quote"; inputAmount is in the first hop's tokenIn    *)
(* and outputAmount in the last hop's tokenOut.  The first definition reads *)
(* one field only and copies it into the other amount.                      *)
(***************************************************************************)
AmountsFromQuote ==
    /\ tradeType = "exactIn" =>
        /\ JSBI_toString(trade.inputAmount.raw) = quote.amount
        /\ JSBI_toString(trade.outputAmount.raw) = quote.quote
    /\ tradeType = "exactOut" =>
        /\ JSBI_toString(trade.outputAmount.raw) = quote.amount
        /\ JSBI_toString(trade.inputAmount.raw) = quote.quote

AmountTokensFromQuote ==
    /\ trade.inputAmount.token = quote.route[1].tokenIn
    /\ trade.outputAmount.token = Last(quote.route).tokenOut

C11_AmountsFromQuote ==
    HasTrade => AmountsFromQuote /\ AmountTokensFromQuote

\* the second definition alone does what the claim says
C11_SecondDefinitionOnly ==
    (HasTrade /\ version = 2) => AmountsFromQuote /\ AmountTokensFromQuote

\* the denomination half holds in both definitions
C11_TokensOnly ==
    HasTrade => AmountTokensFromQuote

(***************************************************************************)
(* C12.  A Trade is consumed exactly once: over any sequence of clicks,     *)
(* repeated or overlapping, the same Trade goes through executeSwap to a    *)
(* real submission at most once.                                            *)
(***************************************************************************)
C12_ConsumedOnce == submitted <= 1

\* what the page does guarantee: no more submissions than clicks
C12_AtMostOnePerClick == submitted <= execs

(***************************************************************************)
(* C13.  Fail-stop and retry-free: in one execution every network step      *)
(* (address, allowance read, approval send, approval wait, simulate, gas    *)
(* estimate, submit) is invoked at most once; a step that fails is the last *)
(* step invoked, the execution is over, and that failure is what the caller *)
(* receives.                                                                *)
(***************************************************************************)
C13_FailStopNoRetry ==
    /\ \A i, j \in 1..Len(calls) : calls[i].op = calls[j].op => i = j
    /\ \A i \in 1..Len(calls) :
        ~calls[i].ok =>
            /\ i = Len(calls)
            /\ pc = "done"
            /\ result = [kind |-> "error", error |-> calls[i].op]

C13_Witness ==
    /\ version = 1
    /\ Succeeded("wait")
    /\ Succeeded("staticCall")
    /\ Failed("estimateGas")
    /\ pc = "done"

(***************************************************************************)
(* C14.  An approval grants MaxUint256, and this code never lowers the      *)
(* allowance, also when the simulation, the estimate or the submission      *)
(* fails afterwards: once an approval of this code is confirmed the         *)
(* allowance is MaxUint256 for good, and an execution started after that    *)
(* confirmation makes no approve call, whatever amount it needs.            *)
(***************************************************************************)
ApprovalsAreMax == \A i \in Ops("approve") : calls[i].arg = MaxUint256

ConfirmedStaysMax == confirmed => allowance = MaxUint256

NoApprovalAfterConfirm == afterConfirm => ~Called("approve") /\ pc # "approve"

C14_MaxApprovalKept ==
    [][/\ allowance' >= allowance
       /\ ApprovalsAreMax'
       /\ ConfirmedStaysMax'
       /\ NoApprovalAfterConfirm']_vars

C14_Witness ==
    /\ version = 1
    /\ afterConfirm
    /\ AllowancesRead = {MaxUint256}
    /\ ~Called("approve")
    /\ Succeeded("send")

====
